------------------------------ MODULE Spec2Model ------------------------------
(***************************************************************************)
(* Model of src/pages/RelatorioCadastros.tsx: header normalisation and     *)
(* resolution, per-field coercion (parseDate, splitPendencias, overdue     *)
(* days), row mapping with the overdue-days fallback, the metrics tables   *)
(* and the upload / preview state of the RelatorioCadastros component.     *)
(*                                                                         *)
(* Text is modelled character by character: a JavaScript string is a       *)
(* sequence of one-character strings.  An accented letter is one           *)
(* character written as its base letter followed by an ASCII mark          *)
(* ("a'" is U+00E1, "c," is U+00E7, "a~" is U+00E3, "e^" is U+00EA).        *)
(***************************************************************************)
EXTENDS Integers, Sequences, FiniteSets, TLC

VARIABLES
    header,        \* SpecHeader: the raw column header under resolution
    headerKey,     \* SpecHeader: result of mapHeaderToKey, or Unresolved
    dateSrc,       \* SpecDate: how the argument of parseDate was produced
    dateArg,       \* SpecDate: the argument of parseDate
    dateRes,       \* SpecDate: the result of parseDate, or Unresolved
    clientes,      \* component state: useState<Cliente[]>
    previewRows,   \* component state: useState<Cliente[]>
    pending,       \* FileReader reads in flight: set of [id, file]
    uploaded,      \* history: the files whose read was started, in order
    lastOp,        \* history: the handler that last changed the state
    source,        \* history: the read whose result clientes holds
    now            \* the clock read by Date.now(), in ticks

headerVars == <<header, headerKey>>
dateVars == <<dateSrc, dateArg, dateRes>>
compVars == <<clientes, previewRows, pending, uploaded, lastOp, source, now>>
vars == <<header, headerKey, dateSrc, dateArg, dateRes,
          clientes, previewRows, pending, uploaded, lastOp, source, now>>

Unresolved == "(not yet computed)"

(***************************************************************************)
(* Strings                                                                 *)
(***************************************************************************)
Min(a, b) == IF a < b THEN a ELSE b

Max(a, b) == IF a > b THEN a ELSE b

\* the concatenation of a sequence of sequences
RECURSIVE Flatten(_)
Flatten(ss) == IF ss = <<>> THEN <<>> ELSE Head(ss) \o Flatten(Tail(ss))

\* the sequences over S of length at most n
SeqsUpTo(S, n) == UNION {[1..k -> S] : k \in 0..n}

\* String.prototype.includes: k occurs in s as a contiguous substring.
Includes(s, k) ==
    \E i \in 1..(Len(s) - Len(k) + 1) : SubSeq(s, i, i + Len(k) - 1) = k

WhiteSpace == {" ", "\t", "\n", "\r"}

RECURSIVE TrimStart(_)
TrimStart(s) ==
    IF s # <<>> /\ Head(s) \in WhiteSpace THEN TrimStart(Tail(s)) ELSE s

RECURSIVE TrimEnd(_)
TrimEnd(s) ==
    IF s # <<>> /\ s[Len(s)] \in WhiteSpace
    THEN TrimEnd(SubSeq(s, 1, Len(s) - 1)) ELSE s

\* String.prototype.trim
Trim(s) == TrimEnd(TrimStart(s))

\* String.prototype.toLowerCase, one character
LowerPairs ==
    { <<"A", "a">>, <<"B", "b">>, <<"C", "c">>, <<"D", "d">>, <<"E", "e">>,
      <<"F", "f">>, <<"G", "g">>, <<"H", "h">>, <<"I", "i">>, <<"J", "j">>,
      <<"K", "k">>, <<"L", "l">>, <<"M", "m">>, <<"N", "n">>, <<"O", "o">>,
      <<"P", "p">>, <<"Q", "q">>, <<"R", "r">>, <<"S", "s">>, <<"T", "t">>,
      <<"U", "u">>, <<"V", "v">>, <<"W", "w">>, <<"X", "x">>, <<"Y", "y">>,
      <<"Z", "z">>, <<"A'", "a'">>, <<"A~", "a~">>, <<"C,", "c,">>,
      <<"E^", "e^">> }

toLowerCase(c) ==
    IF \E p \in LowerPairs : p[1] = c
    THEN (CHOOSE p \in LowerPairs : p[1] = c)[2]
    ELSE c

\* normalize("NFD") followed by the removal of U+0300..U+036F, one
\* character: an accented letter decomposes into its base letter and a
\* combining mark, and the mark is removed.
AccentPairs ==
    { <<"a'", "a">>, <<"e'", "e">>, <<"i'", "i">>, <<"o'", "o">>,
      <<"a~", "a">>, <<"o~", "o">>, <<"c,", "c">>, <<"e^", "e">> }

stripAccent(c) ==
    IF \E p \in AccentPairs : p[1] = c
    THEN (CHOOSE p \in AccentPairs : p[1] = c)[2]
    ELSE c

(***************************************************************************)
(* HeaderNormalizer                                                        *)
(***************************************************************************)
normalizeHeader(h) ==
    IF h = <<>> THEN <<>>
    ELSE LET t == Trim(h)
         IN  [i \in 1..Len(t) |-> stripAccent(toLowerCase(t[i]))]

\* The object literal headerMap: its own properties in insertion order
\* (no key is an integer index, so Object.keys keeps the written order).
headerMap ==
    << <<<<"c", "l", "i", "e", "n", "t", "e", " ", "n", "o", "v", "o">>, "nome">>,
       <<<<"n", "o", "m", "e">>, "nome">>,
       <<<<"c", "p", "f">>, "cpf">>,
       <<<<"e", "s", "t", "a", "d", "o">>, "estado">>,
       <<<<"c", "i", "d", "a", "d", "e">>, "cidade">>,
       <<<<"r", "e", "s", "p", "o", "n", "s", "a", "v", "e", "l", " ", "d", "a", " ", "f", "i", "d", "e", "l", "i", "z", "a", "c", "a", "o">>, "responsavelFidelizacao">>,
       <<<<"r", "e", "s", "p", "o", "n", "s", "a", "v", "e", "l", " ", "p", "e", "l", "a", " ", "f", "i", "d", "e", "l", "i", "z", "a", "c", "a", "o">>, "responsavelFidelizacao">>,
       <<<<"r", "e", "s", "p", "o", "n", "s", "a", "v", "e", "l", " ", "f", "i", "d", "e", "l", "i", "z", "a", "c", "a", "o">>, "responsavelFidelizacao">>,
       <<<<"a", "c", "o", "e", "s", " ", "i", "n", "f", "o", "r", "m", "a", "d", "a", "s">>, "acoesInformadas">>,
       <<<<"s", "i", "t", "u", "a", "c", "a", "o">>, "situacao">>,
       <<<<"p", "e", "n", "d", "e", "n", "c", "i", "a", "s">>, "pendencias">>,
       <<<<"d", "a", "t", "a", " ", "d", "a", " ", "p", "r", "o", "c", "u", "r", "a", "c", "a", "o">>, "dataProc">>,
       <<<<"d", "a", "t", "a", " ", "d", "o", " ", "e", "n", "v", "i", "o", " ", "d", "a", " ", "p", "r", "o", "c", "u", "r", "a", "c", "a", "o">>, "dataEnvioProc">>,
       <<<<"d", "a", "t", "a", " ", "l", "i", "m", "i", "t", "e", " ", "p", "a", "r", "a", " ", "c", "a", "d", "a", "s", "t", "r", "o">>, "dataLimiteCadastro">>,
       <<<<"d", "a", "t", "a", " ", "l", "i", "m", "i", "t", "e", " ", "p", "a", "r", "a", " ", "a", "n", "a", "l", "i", "s", "e">>, "dataLimiteAnalise">>,
       <<<<"d", "a", "t", "a", " ", "l", "i", "m", "i", "t", "e", " ", "p", "a", "r", "a", " ", "p", "e", "t", "i", "c", "a", "o", " ", "i", "n", "i", "c", "i", "a", "l">>, "dataLimitePeticao">>,
       <<<<"d", "a", "t", "a", " ", "l", "i", "m", "i", "t", "e", " ", "p", "a", "r", "a", " ", "p", "r", "o", "t", "o", "c", "o", "l", "o">>, "dataLimiteProtocolo">>,
       <<<<"p", "r", "a", "z", "o", " ", "d", "e", " ", "2", "0", " ", "d", "i", "a", "s">>, "prazo20dias">>,
       <<<<"q", "u", "a", "n", "t", "o", "s", " ", "d", "i", "a", "s", " ", "e", "s", "t", "a", " ", "a", "t", "r", "a", "s", "a", "d", "o">>, "diasAtrasado">>,
       <<<<"q", "u", "a", "n", "t", "o", "s", " ", "d", "i", "a", "s", " ", "e", "s", "t", "a'", " ", "a", "t", "r", "a", "s", "a", "d", "o">>, "diasAtrasado">>,
       <<<<"r", "e", "s", "p", "o", "n", "s", "a", "v", "e", "l", " ", "p", "e", "l", "o", " ", "c", "a", "d", "a", "s", "t", "r", "a", "m", "e", "n", "t", "o">>, "responsavelCadastramento">>,
       <<<<"r", "e", "s", "p", "o", "n", "s", "a", "v", "e", "l", " ", "p", "e", "l", "o", " ", "c", "a", "d", "a", "s", "t", "r", "o">>, "responsavelCadastramento">>,
       <<<<"r", "e", "s", "p", "o", "n", "s", "a", "v", "e", "l">>, "responsavelCadastramento">> >>

\* headerMap is a plain object, so headerMap[name] also finds the
\* properties inherited from Object.prototype.  These are the inherited
\* names a lower-cased header can spell; the value found is an object
\* (truthy), named here by the property key it turns into when the row
\* mapper stores under it.
inheritedProps ==
    << <<<<"c", "o", "n", "s", "t", "r", "u", "c", "t", "o", "r">>, "function Object() { [native code] }">>,
       <<<<"_", "_", "p", "r", "o", "t", "o", "_", "_">>, "[object Object]">> >>

Undefined == "undefined"

\* headerMap[name]: own property first, then the prototype chain.
headerMapGet(name) ==
    IF \E i \in 1..Len(headerMap) : headerMap[i][1] = name
    THEN headerMap[CHOOSE i \in 1..Len(headerMap) : headerMap[i][1] = name][2]
    ELSE IF \E i \in 1..Len(inheritedProps) : inheritedProps[i][1] = name
    THEN inheritedProps[CHOOSE i \in 1..Len(inheritedProps) :
                            inheritedProps[i][1] = name][2]
    ELSE Undefined

\* the for..of loop over Object.keys(headerMap): first key contained
firstSubstringKey(normalized) ==
    LET hits == {i \in 1..Len(headerMap) : Includes(normalized, headerMap[i][1])}
    IN  IF hits = {} THEN Undefined
        ELSE headerMap[CHOOSE i \in hits : \A j \in hits : i <= j][2]

mapHeaderToKey(normalized) ==
    IF headerMapGet(normalized) # Undefined THEN headerMapGet(normalized)
    ELSE firstSubstringKey(normalized)


(***************************************************************************)
(* JavaScript values held by spreadsheet cells and record fields           *)
(***************************************************************************)
Str(s) == [t |-> "string", s |-> s]

Num(n) == [t |-> "number", n |-> n]

\* a Date object: valid with its time value in ticks, or Invalid Date
DateOf(time) == [t |-> "date", valid |-> TRUE, time |-> time]

InvalidDate == [t |-> "date", valid |-> FALSE, time |-> 0]

Null == [t |-> "null"]

Undef == [t |-> "undefined"]

NotComputed == [t |-> "unresolved"]

\* the result of a numeric conversion: NaN or an integer
NaN == [nan |-> TRUE, v |-> 0]

Finite(v) == [nan |-> FALSE, v |-> v]

Digits == <<"0", "1", "2", "3", "4", "5", "6", "7", "8", "9">>

IsDigit(c) == \E i \in 1..10 : Digits[i] = c

DigitValue(c) == (CHOOSE i \in 1..10 : Digits[i] = c) - 1

RECURSIVE DigitsToNat(_)
DigitsToNat(s) ==
    IF s = <<>> THEN 0
    ELSE 10 * DigitsToNat(SubSeq(s, 1, Len(s) - 1)) + DigitValue(s[Len(s)])

AllDigits(s) == \A i \in 1..Len(s) : IsDigit(s[i])

\* Number(text): white space is trimmed, the empty text is 0, an
\* optionally signed run of digits is that integer, anything else over
\* the model's alphabet (no ".", "e" or "x" forms) is NaN.
StringToNumber(s) ==
    LET t == Trim(s)
    IN  IF t = <<>> THEN Finite(0)
        ELSE IF AllDigits(t) THEN Finite(DigitsToNat(t))
        ELSE IF Head(t) \in {"-", "+"} /\ Len(t) > 1 /\ AllDigits(Tail(t))
        THEN Finite(IF Head(t) = "-" THEN 0 - DigitsToNat(Tail(t))
                    ELSE DigitsToNat(Tail(t)))
        ELSE NaN

RECURSIVE NatToDigits(_)
NatToDigits(n) ==
    IF n < 10 THEN <<Digits[n + 1]>>
    ELSE NatToDigits(n \div 10) \o <<Digits[(n % 10) + 1]>>

\* String(value).  The text of a valid Date (weekday, month name, ...) is
\* abbreviated to a fixed text without digits or separators: it is only
\* read when such a cell sits under a column that is not a date column.
StringOf(value) ==
    CASE value.t = "string" -> value.s
      [] value.t = "number" ->
            IF value.n < 0 THEN <<"-">> \o NatToDigits(0 - value.n)
            ELSE NatToDigits(value.n)
      [] value.t = "date" -> IF value.valid THEN <<"[", "D", "a", "t", "e", "]">> ELSE <<"I", "n", "v", "a", "l", "i", "d", " ", "D", "a", "t", "e">>
      [] value.t = "null" -> <<"n", "u", "l", "l">>
      [] value.t = "undefined" -> <<"u", "n", "d", "e", "f", "i", "n", "e", "d">>

\* !value : "", null and undefined are falsy, and so is the number 0
Falsy(value) ==
    \/ value.t \in {"null", "undefined"}
    \/ value.t = "string" /\ value.s = <<>>
    \/ value.t = "number" /\ value.n = 0

\* String.prototype.split with a one-character separator
RECURSIVE SplitOn(_, _)
SplitOn(s, sep) ==
    IF \E i \in 1..Len(s) : s[i] = sep
    THEN LET i == CHOOSE k \in 1..Len(s) :
                      s[k] = sep /\ \A j \in 1..(k - 1) : s[j] # sep
         IN  <<SubSeq(s, 1, i - 1)>> \o SplitOn(SubSeq(s, i + 1, Len(s)), sep)
    ELSE <<s>>

(***************************************************************************)
(* The Date built-in (ECMAScript 21.4.1), with time counted in ticks of    *)
(* 1/TicksPerDay of a day and the local time zone taken as UTC.            *)
(***************************************************************************)
TicksPerDay == 4

\* a time value is valid up to 100,000,000 days either side of the epoch
MaxTimeDays == 100000000

DaysInYear(y) ==
    IF y % 4 # 0 THEN 365
    ELSE IF y % 100 # 0 THEN 366
    ELSE IF y % 400 # 0 THEN 365
    ELSE 366

DayFromYear(y) ==
    365 * (y - 1970) + ((y - 1969) \div 4) - ((y - 1901) \div 100)
        + ((y - 1601) \div 400)

\* days before month m (0-based) in a year of the given length
DaysBeforeMonth(m, leap) ==
    LET base == <<0, 31, 59, 90, 120, 151, 181, 212, 243, 273, 304, 334>>
    IN  base[m + 1] + (IF m >= 2 THEN leap ELSE 0)

\* MakeDay(year, month, date): month is 0-based and may lie outside 0..11,
\* date may lie outside the month (both roll over)
MakeDay(year, month, date) ==
    LET ym == year + (month \div 12)
        mn == month % 12
    IN  DayFromYear(ym) + DaysBeforeMonth(mn, DaysInYear(ym) - 365) + date - 1

YearFromDay(day) ==
    LET est == 1970 + 400 * (day \div 146097) + ((day % 146097) \div 365)
    IN  CHOOSE y \in (est - 2)..(est + 1) :
            DayFromYear(y) <= day /\ day < DayFromYear(y + 1)

\* the civil date of a day number: year, 0-based month, day of the month
CivilFromDay(day) ==
    LET y == YearFromDay(day)
        leap == DaysInYear(y) - 365
        doy == day - DayFromYear(y)
        m == CHOOSE k \in 0..11 :
                 /\ DaysBeforeMonth(k, leap) <= doy
                 /\ (k = 11 \/ doy < DaysBeforeMonth(k + 1, leap))
    IN  [year |-> y, month |-> m, date |-> doy - DaysBeforeMonth(m, leap) + 1]

\* TimeClip applied to a whole number of days
DateFromDays(days) ==
    IF days > MaxTimeDays \/ days < 0 - MaxTimeDays THEN InvalidDate
    ELSE DateOf(days * TicksPerDay)

\* new Date(y, m, d): a year 0..99 means 1900 + y
NewDateYMD(y, m, d) ==
    DateFromDays(MakeDay(IF y >= 0 /\ y <= 99 THEN 1900 + y ELSE y, m, d))

DayOfTime(time) == time \div TicksPerDay

\* Date.prototype.getFullYear / getMonth / getDate of a valid date
getFullYear(dt) == CivilFromDay(DayOfTime(dt.time)).year

getMonth(dt) == CivilFromDay(DayOfTime(dt.time)).month

getDate(dt) == CivilFromDay(DayOfTime(dt.time)).date

\* Date.parse: the ISO form YYYY-MM-DD with fields in range is the
\* midnight of that day.  Any other text is left to the engine's own
\* fallback parser, whose outcome (NaN or some time value) the caller of
\* this operator supplies as legacy, a function of the text.
IsIsoDate(s) ==
    /\ Len(s) = 10
    /\ s[5] = "-" /\ s[8] = "-"
    /\ \A i \in {1, 2, 3, 4, 6, 7, 9, 10} : IsDigit(s[i])
    /\ LET y == DigitsToNat(SubSeq(s, 1, 4))
           m == DigitsToNat(SubSeq(s, 6, 7))
           d == DigitsToNat(SubSeq(s, 9, 10))
       IN  /\ m \in 1..12
           /\ d >= 1
           /\ d <= MakeDay(y, m, 1) - MakeDay(y, m - 1, 1)

DateParse(s, legacy) ==
    IF IsIsoDate(s)
    THEN Finite(TicksPerDay * MakeDay(DigitsToNat(SubSeq(s, 1, 4)),
                                      DigitsToNat(SubSeq(s, 6, 7)) - 1,
                                      DigitsToNat(SubSeq(s, 9, 10))))
    ELSE legacy[s]

\* what an engine's fallback date parser may answer for non-ISO text
LegacyOutcomes ==
    { NaN, Finite(TicksPerDay * MakeDay(2001, 0, 1)),
      Finite(TicksPerDay * MakeDay(1850, 5, 15)) }

\* the spreadsheet serial offset of line 120
SerialEpochOffset == 25569

(***************************************************************************)
(* FieldCoercer                                                            *)
(***************************************************************************)
\* mutation of parseDateParts: the month is not made 0-based
parseDatePartsMonthOff(parts) ==
    LET d == StringToNumber(parts[1])
        m == StringToNumber(parts[2])
        y == StringToNumber(parts[3])
    IN  IF ~d.nan /\ ~m.nan /\ ~y.nan /\ y.v > 1900
        THEN NewDateYMD(y.v, m.v, d.v)
        ELSE Null

\* the dd/mm/yyyy attempt of parseDate, on the three parts
parseDateParts(parts) ==
    LET d == StringToNumber(parts[1])
        m == StringToNumber(parts[2])
        y == StringToNumber(parts[3])
    IN  IF ~d.nan /\ ~m.nan /\ ~y.nan /\ y.v > 1900
        THEN NewDateYMD(y.v, m.v - 1, d.v)
        ELSE Null

\* the Excel-serial attempt of parseDate
parseDateSerial(s) ==
    LET n == StringToNumber(s)
    IN  IF ~n.nan /\ n.v > 0
        THEN LET dt == DateFromDays(n.v - SerialEpochOffset)
             IN  IF dt.valid /\ getFullYear(dt) > 1900 THEN dt ELSE Null
        ELSE Null

parseDate(value, legacy) ==
    IF Falsy(value) /\ ~(value.t = "number" /\ value.n = 0) THEN Null
    ELSE IF value.t = "date" /\ value.valid THEN value
    ELSE LET s == Trim(StringOf(value))
         IN  IF s = <<>> THEN Null
             ELSE LET parts == SplitOn(s, "/")
                  IN  IF Len(parts) = 3 THEN parseDateParts(parts)
                      ELSE LET iso == DateParse(s, legacy)
                           IN  IF ~iso.nan /\ getFullYear(DateOf(iso.v)) > 1900
                               THEN DateOf(iso.v)
                               ELSE parseDateSerial(s)

\* the separators of /[,;|\/]+/
PendenciaSeparators == {",", ";", "|", "/"}

RECURSIVE DropSeparators(_)
DropSeparators(s) ==
    IF s # <<>> /\ Head(s) \in PendenciaSeparators
    THEN DropSeparators(Tail(s)) ELSE s

\* String.prototype.split(/[,;|\/]+/): the pieces between maximal runs of
\* separators, an empty piece before a leading and after a trailing run
RECURSIVE SplitRuns(_)
SplitRuns(s) ==
    IF \E i \in 1..Len(s) : s[i] \in PendenciaSeparators
    THEN LET i == CHOOSE k \in 1..Len(s) :
                      /\ s[k] \in PendenciaSeparators
                      /\ \A j \in 1..(k - 1) : s[j] \notin PendenciaSeparators
         IN  <<SubSeq(s, 1, i - 1)>>
                 \o SplitRuns(DropSeparators(SubSeq(s, i + 1, Len(s))))
    ELSE <<s>>

\* .filter(Boolean) on a list of strings
RECURSIVE FilterNonEmpty(_)
FilterNonEmpty(ss) ==
    IF ss = <<>> THEN <<>>
    ELSE IF Head(ss) = <<>> THEN FilterNonEmpty(Tail(ss))
    ELSE <<Head(ss)>> \o FilterNonEmpty(Tail(ss))

List(items) == [t |-> "list", items |-> items]

\* mutation of splitPendencias: an empty cell gives null, not a list
splitPendenciasOrNull(raw) ==
    IF Falsy(raw) THEN Null
    ELSE List(FilterNonEmpty(
             LET pieces == SplitRuns(StringOf(raw))
             IN  [i \in 1..Len(pieces) |-> Trim(pieces[i])]))

splitPendencias(raw) ==
    IF Falsy(raw) THEN List(<<>>)
    ELSE LET text == StringOf(raw)
             s == [i \in 1..Len(text) |->
                       IF text[i] \in {"\r", "\n"} THEN " " ELSE text[i]]
             pieces == SplitRuns(s)
         IN  List(FilterNonEmpty([i \in 1..Len(pieces) |-> Trim(pieces[i])]))

\* .replace(/\D+/g, "")
RECURSIVE OnlyDigits(_)
OnlyDigits(s) ==
    IF s = <<>> THEN <<>>
    ELSE IF IsDigit(Head(s)) THEN <<Head(s)>> \o OnlyDigits(Tail(s))
    ELSE OnlyDigits(Tail(s))

\* case "diasAtrasado": Number(String(v).replace(/\D+/g, "")), null if NaN
coerceDiasAtrasado(v) ==
    LET n == StringToNumber(OnlyDigits(StringOf(v)))
    IN  IF n.nan THEN Null ELSE Num(n.v)

\* default: String(v ?? "").trim()
coerceText(v) ==
    IF v.t \in {"null", "undefined"} THEN Str(<<>>)
    ELSE Str(Trim(StringOf(v)))

(***************************************************************************)
(* RecordMapper                                                            *)
(***************************************************************************)
DateFields ==
    { "dataProc", "dataEnvioProc", "dataLimiteCadastro", "dataLimiteAnalise",
      "dataLimitePeticao", "dataLimiteProtocolo" }

\* the switch of the row mapper: the value stored under key
coerceField(key, v, legacy) ==
    IF key \in DateFields THEN parseDate(v, legacy)
    ELSE IF key = "pendencias" THEN splitPendencias(v)
    ELSE IF key = "diasAtrasado" THEN coerceDiasAtrasado(v)
    ELSE coerceText(v)

\* Object.entries(row).forEach: a record is a function from the property
\* names it has to their values; an entry whose header does not resolve
\* leaves it unchanged
RECURSIVE mapEntries(_, _, _)
mapEntries(out, entries, legacy) ==
    IF entries = <<>> THEN out
    ELSE LET h == Head(entries)[1]
             v == Head(entries)[2]
             key == mapHeaderToKey(normalizeHeader(h))
         IN  IF key = Undefined
             THEN mapEntries(out, Tail(entries), legacy)
             ELSE mapEntries((key :> coerceField(key, v, legacy)) @@ out,
                             Tail(entries), legacy)

\* Math.floor((Date.now() - deadline.getTime()) / one day), clamped at 0;
\* the time of an Invalid Date is NaN, and NaN > 0 is false
computeAtraso(deadline, clock) ==
    IF ~deadline.valid THEN 0
    ELSE LET diff == (clock - deadline.time) \div TicksPerDay
         IN  IF diff > 0 THEN diff ELSE 0

\* out.diasAtrasado == null : the property is absent or null
IsNullish(out, key) == key \notin DOMAIN out \/ out[key].t \in {"null", "undefined"}

\* mutation of applyFallback: the computed value replaces a supplied one
applyFallbackAlways(out, clock) ==
    IF /\ "dataLimiteProtocolo" \in DOMAIN out
       /\ out["dataLimiteProtocolo"].t = "date"
    THEN ("diasAtrasado" :> Num(computeAtraso(out["dataLimiteProtocolo"], clock)))
             @@ out
    ELSE out

\* the overdue-days fallback applied after the columns
applyFallback(out, clock) ==
    IF /\ IsNullish(out, "diasAtrasado")
       /\ "dataLimiteProtocolo" \in DOMAIN out
       /\ out["dataLimiteProtocolo"].t = "date"
    THEN ("diasAtrasado" :> Num(computeAtraso(out["dataLimiteProtocolo"], clock)))
             @@ out
    ELSE out

\* raw.map((row) => ...) for one row
mapRow(row, clock, legacy) ==
    applyFallback(mapEntries("raw" :> [t |-> "row", entries |-> row], row, legacy),
                  clock)

mapRows(rows, clock, legacy) ==
    [i \in 1..Len(rows) |-> mapRow(rows[i], clock, legacy)]

(***************************************************************************)
(* MetricsAggregator                                                       *)
(***************************************************************************)
\* c.pendencias || []
pendenciasOf(c) ==
    IF "pendencias" \in DOMAIN c /\ c["pendencias"].t = "list"
    THEN c["pendencias"].items ELSE <<>>

\* mutation of pendenciasFlat: a record without labels yields one empty
\* label
pendenciasFlatDefaulting(cs) ==
    Flatten([i \in 1..Len(cs) |->
                IF pendenciasOf(cs[i]) = <<>> THEN << <<>> >>
                ELSE pendenciasOf(cs[i])])

\* clientes.flatMap((c) => c.pendencias || [])
pendenciasFlat(cs) == Flatten([i \in 1..Len(cs) |-> pendenciasOf(cs[i])])

\* acc[k] = (acc[k] || 0) + 1 on an object kept as the sequence of its
\* <<key, count>> properties in the order the keys were created
countInto(acc, k) ==
    IF \E i \in 1..Len(acc) : acc[i][1] = k
    THEN [i \in 1..Len(acc) |->
              IF acc[i][1] = k THEN <<k, acc[i][2] + 1>> ELSE acc[i]]
    ELSE Append(acc, <<k, 1>>)

SemEspecificar == <<"S", "e", "m", " ", "e", "s", "p", "e", "c", "i", "f", "i", "c", "a", "r">>

NaoInformado == <<"N", "a~", "o", " ", "i", "n", "f", "o", "r", "m", "a", "d", "o">>

RECURSIVE countLabels(_, _)
countLabels(acc, labels) ==
    IF labels = <<>> THEN acc
    ELSE countLabels(countInto(acc, Head(labels)), Tail(labels))

\* the reduce of pendenciasCount: k = p || "Sem especificar"
pendenciasCount(cs) ==
    LET flat == pendenciasFlat(cs)
    IN  countLabels(<<>>, [i \in 1..Len(flat) |->
                              IF flat[i] = <<>> THEN SemEspecificar ELSE flat[i]])

\* a property name that is an array index ("0", "7", "42": canonical
\* decimal text below 2^32 - 1; the model's labels have at most 9 digits)
IsArrayIndex(k) ==
    /\ k # <<>>
    /\ AllDigits(k)
    /\ Len(k) <= 9
    /\ (Len(k) = 1 \/ k[1] # "0")

\* insert e into a sequence of entries with array-index keys kept in
\* ascending numeric order
RECURSIVE insertByIndex(_, _)
insertByIndex(sorted, e) ==
    IF sorted = <<>> THEN <<e>>
    ELSE IF DigitsToNat(e[1]) < DigitsToNat(Head(sorted)[1])
    THEN <<e>> \o sorted
    ELSE <<Head(sorted)>> \o insertByIndex(Tail(sorted), e)

RECURSIVE indexEntries(_)
indexEntries(acc) ==
    IF acc = <<>> THEN <<>>
    ELSE IF IsArrayIndex(Head(acc)[1])
    THEN insertByIndex(indexEntries(Tail(acc)), Head(acc))
    ELSE indexEntries(Tail(acc))

RECURSIVE nameEntries(_)
nameEntries(acc) ==
    IF acc = <<>> THEN <<>>
    ELSE IF IsArrayIndex(Head(acc)[1]) THEN nameEntries(Tail(acc))
    ELSE <<Head(acc)>> \o nameEntries(Tail(acc))

\* Object.entries(acc): the array-index keys in ascending numeric order,
\* then the other keys in the order they were created
objectEntries(acc) == indexEntries(acc) \o nameEntries(acc)

\* insert e after every entry whose count is >= its own
RECURSIVE insertByCount(_, _)
insertByCount(sorted, e) ==
    IF sorted = <<>> THEN <<e>>
    ELSE IF Head(sorted)[2] >= e[2]
    THEN <<Head(sorted)>> \o insertByCount(Tail(sorted), e)
    ELSE <<e>> \o sorted

\* .sort((a, b) => b.value - a.value): Array.prototype.sort is stable
RECURSIVE sortByCountDesc(_)
sortByCountDesc(es) ==
    IF es = <<>> THEN <<>>
    ELSE insertByCount(sortByCountDesc(SubSeq(es, 1, Len(es) - 1)), es[Len(es)])

pendenciasArray(cs) == sortByCountDesc(objectEntries(pendenciasCount(cs)))

\* (c.cidade || "N\~ao informado").trim()
cityLabel(c) ==
    IF "cidade" \in DOMAIN c /\ ~Falsy(c["cidade"])
    THEN Trim(StringOf(c["cidade"])) ELSE Trim(NaoInformado)

cityCount(cs) == countLabels(<<>>, [i \in 1..Len(cs) |-> cityLabel(cs[i])])

TopCitiesLimit == 10

\* Array.prototype.slice(0, n)
Slice(xs, n) == SubSeq(xs, 1, Min(n, Len(xs)))

topCities(cs) == Slice(sortByCountDesc(objectEntries(cityCount(cs))), TopCitiesLimit)

total(cs) == Len(cs)

(***************************************************************************)
(* The component: uploads, reads in flight, preview                        *)
(***************************************************************************)
PreviewLimit == 10

ShowMoreLimit == 50

\* mutation of nextClientes: the new records are appended to the old
nextClientesMerging(old, mapped) == old \o mapped

\* mutation of initialPreview: the preview is left as it was
initialPreviewStale(old, mapped) == old

\* setClientes(mapped)
nextClientes(old, mapped) == mapped

\* setPreviewRows(mapped.slice(0, 10))
initialPreview(old, mapped) == Slice(mapped, PreviewLimit)

\* setPreviewRows(clientes.slice(0, 50))
expandedPreview(old, cs) == Slice(cs, ShowMoreLimit)

\* the <<header, cell>> entries of all rows of a sheet
fileEntries(rows) ==
    UNION { {rows[i][j] : j \in 1..Len(rows[i])} : i \in 1..Len(rows) }

\* the texts of a file's cells that parseDate may hand to Date.parse
dateTexts(rows) ==
    { Trim(StringOf(e[2])) :
        e \in { x \in fileEntries(rows) :
                   mapHeaderToKey(normalizeHeader(x[1])) \in DateFields } }

NoSource == [id |-> 0, clock |-> 0, legacy |-> <<>>]

\* handleFile with a file chosen: a FileReader is created and the read
\* started; nothing else changes until its onload runs
SelectFile(f, cap) ==
    /\ Len(uploaded) < cap
    /\ uploaded' = Append(uploaded, f)
    /\ pending' = pending \cup {Len(uploaded) + 1}
    /\ UNCHANGED <<clientes, previewRows, lastOp, source, now,
                   headerVars, dateVars>>

\* handleFile with no file chosen: if (!file) return
SelectNothing ==
    /\ UNCHANGED vars

\* reader.onload of read id, the sheet readable
OnLoad(id) ==
    /\ id \in pending
    /\ uploaded[id].ok
    /\ \E legacy \in [dateTexts(uploaded[id].rows) -> LegacyOutcomes] :
          LET mapped == mapRows(uploaded[id].rows, now, legacy)
          IN  /\ clientes' = nextClientes(clientes, mapped)
              /\ previewRows' = initialPreview(previewRows, mapped)
              /\ source' = [id |-> id, clock |-> now, legacy |-> legacy]
    /\ lastOp' = "load"
    /\ pending' = pending \ {id}
    /\ UNCHANGED <<uploaded, now, headerVars, dateVars>>

\* reader.onload of read id, XLSX.read throwing on bytes that are no
\* workbook: the handler ends before either setter runs
OnLoadThrows(id) ==
    /\ id \in pending
    /\ ~uploaded[id].ok
    /\ pending' = pending \ {id}
    /\ UNCHANGED <<clientes, previewRows, uploaded, lastOp, source, now,
                   headerVars, dateVars>>

\* the button "Mostrar mais (50)", rendered only while total # 0
ShowMore ==
    /\ total(clientes) # 0
    /\ previewRows' = expandedPreview(previewRows, clientes)
    /\ lastOp' = "more"
    /\ UNCHANGED <<clientes, pending, uploaded, source, now,
                   headerVars, dateVars>>

\* the instant the page is opened: day 20000 after the epoch, at noon
Now0 == 20000 * TicksPerDay + 2

MaxClockSteps == 1

ClockStep == 3

\* time passes
Tick ==
    /\ now + ClockStep <= Now0 + MaxClockSteps * ClockStep
    /\ now' = now + ClockStep
    /\ UNCHANGED <<clientes, previewRows, pending, uploaded, lastOp, source,
                   headerVars, dateVars>>

(***************************************************************************)
(* Inputs of the header and date specifications                            *)
(***************************************************************************)
MaxPieces == 2

\* fragments of raw column headers: table keys as a spreadsheet spells
\* them, filler text, and names that Object.prototype also defines
HeaderPieces ==
    { <<"C", "l", "i", "e", "n", "t", "e", " ", "N", "o", "v", "o">>, <<"n", "o", "m", "e">>, <<"R", "e", "s", "p", "o", "n", "s", "a'", "v", "e", "l">>, <<"c", "i", "d", "a", "d", "e">>, <<"P", "e", "n", "d", "e^", "n", "c", "i", "a", "s">>,
      <<"r", "e", "s", "p", "o", "n", "s", "a", "v", "e", "l", " ", "p", "e", "l", "a", " ", "f", "i", "d", "e", "l", "i", "z", "a", "c", "a", "o">>, <<"Q", "u", "a", "n", "t", "o", "s", " ", "d", "i", "a", "s", " ", "e", "s", "t", "a'", " ", "a", "t", "r", "a", "s", "a", "d", "o">>,
      <<"D", "a", "t", "a", " ", "l", "i", "m", "i", "t", "e", " ", "p", "a", "r", "a", " ", "p", "r", "o", "t", "o", "c", "o", "l", "o">>, <<"C", "P", "F">>, <<" ">>, <<" ", "d", "o", " ">>, <<"x">>,
      <<"C", "o", "n", "s", "t", "r", "u", "c", "t", "o", "r">>, <<"_", "_", "p", "r", "o", "t", "o", "_", "_">> }

RawHeaders == {Flatten(ps) : ps \in SeqsUpTo(HeaderPieces, MaxPieces)}

IdleHeader ==
    /\ header = <<>>
    /\ headerKey = Unresolved

IdleDate ==
    /\ dateSrc = [kind |-> "none", d |-> 0, m |-> 0, y |-> 0]
    /\ dateArg = Undef
    /\ dateRes = NotComputed

InitComponent ==
    /\ clientes = <<>>
    /\ previewRows = <<>>
    /\ pending = {}
    /\ uploaded = <<>>
    /\ lastOp = "init"
    /\ source = NoSource
    /\ now = Now0

(***************************************************************************)
(* SpecHeader: one column header is normalised and resolved                *)
(***************************************************************************)
InitHeader ==
    /\ header \in RawHeaders
    /\ headerKey = Unresolved
    /\ IdleDate
    /\ InitComponent

ResolveHeader ==
    /\ headerKey = Unresolved
    /\ headerKey' = mapHeaderToKey(normalizeHeader(header))
    /\ UNCHANGED <<header, dateVars, compVars>>

NextHeader == ResolveHeader

SpecHeader == InitHeader /\ [][NextHeader]_vars

(***************************************************************************)
(* SpecDate: parseDate applied to one cell value                           *)
(***************************************************************************)
Pad2(n) == IF n < 10 THEN <<"0">> \o NatToDigits(n) ELSE NatToDigits(n)

Pad4(n) ==
    IF n < 10 THEN <<"0", "0", "0">> \o NatToDigits(n)
    ELSE IF n < 100 THEN <<"0", "0">> \o NatToDigits(n)
    ELSE IF n < 1000 THEN <<"0">> \o NatToDigits(n)
    ELSE NatToDigits(n)

\* the text DD/MM/YYYY of a day, a month (1-based) and a year
FormatDMY(d, m, y) == Pad2(d) \o <<"/">> \o Pad2(m) \o <<"/">> \o Pad4(y)

DmyDays == {0, 1, 5, 28, 29, 30, 31, 32}

DmyMonths == 0..13

DmyYears == {1899, 1900, 1901, 1970, 2022, 2024, 9999, 300000}

OtherDateCells ==
    { Str(<<>>), Str(<<" ", " ">>), Str(<<"a", "b", "c">>), Str(<<"0", "5", "/", "0", "3">>), Str(<<"1", "/", "2", "/", "3", "/", "4">>),
      Str(<<"x", "/", "0", "3", "/", "2", "0", "2", "2">>), Str(<<"0", "5", "/", "x", "/", "2", "0", "2", "2">>), Str(<<"0", "5", "/", "0", "3", "/", "x">>), Str(<<"/", "/", "2", "0", "2", "2">>),
      Str(<<" ", "5", "/", "3", "/", "2", "0", "2", "2", " ">>), Str(<<"0", "5", "/", "0", "3", "/", "2", "2">>), Str(<<"0", "5", "/", "-", "3", "/", "2", "0", "2", "2">>),
      Str(<<"2", "0", "2", "2", "-", "0", "3", "-", "0", "5">>), Str(<<"1", "8", "9", "9", "-", "1", "2", "-", "3", "1">>), Str(<<"2", "0", "2", "2", "-", "0", "2", "-", "3", "0">>),
      Str(<<"4", "4", "0", "0", "0">>), Str(<<"1">>), Str(<<"0">>), Str(<<"-", "5">>), Str(<<"9", "9", "9", "9", "9", "9", "9", "9", "9">>),
      Num(0), Num(44000), Num(1), Num(-3), Num(999999999),
      DateOf(Now0), DateOf(0 - 30000 * TicksPerDay), InvalidDate,
      Null, Undef }

InitDate ==
    /\ \/ \E d \in DmyDays, m \in DmyMonths, y \in DmyYears :
             /\ dateSrc = [kind |-> "dmy", d |-> d, m |-> m, y |-> y]
             /\ dateArg = Str(FormatDMY(d, m, y))
       \/ /\ dateSrc = [kind |-> "other", d |-> 0, m |-> 0, y |-> 0]
          /\ dateArg \in OtherDateCells
    /\ dateRes = NotComputed
    /\ IdleHeader
    /\ InitComponent

ParseDateCell ==
    /\ dateRes = NotComputed
    /\ \E legacy \in [{Trim(StringOf(dateArg))} -> LegacyOutcomes] :
           dateRes' = parseDate(dateArg, legacy)
    /\ UNCHANGED <<dateSrc, dateArg, headerVars, compVars>>

NextDate == ParseDateCell

SpecDate == InitDate /\ [][NextDate]_vars

(***************************************************************************)
(* Spec: the component under uploads of whole sheets, reads completing in  *)
(* any order, and clicks on "Mostrar mais (50)"                            *)
(***************************************************************************)
MaxUploads == 2

Sheet(rows) == [ok |-> TRUE, rows |-> rows]

\* bytes that XLSX.read rejects
CorruptFile == [ok |-> FALSE, rows |-> <<>>]

\* a sheet of n clients named tag1, tag2, ... over twelve cities
GeneratedSheet(tag, n) ==
    Sheet([i \in 1..n |->
              << <<<<"C", "l", "i", "e", "n", "t", "e", " ", "N", "o", "v", "o">>, Str(tag \o NatToDigits(i))>>,
                 <<<<"C", "i", "d", "a", "d", "e">>, Str(<<"C", "i", "d", "a", "d", "e", " ">> \o NatToDigits(i % 12))>>,
                 <<<<"P", "e", "n", "d", "e^", "n", "c", "i", "a", "s">>, Str(IF i % 3 = 0 THEN <<>> ELSE <<"R", "G", ";", " ", "C", "P", "F">>)>> >>])

UiFiles ==
    { GeneratedSheet(<<"A", "n", "a">>, 0), GeneratedSheet(<<"B", "e", "a">>, 3),
      GeneratedSheet(<<"C", "a", "i", "o">>, 12), GeneratedSheet(<<"D", "a", "v", "i">>, 51), CorruptFile }

Init ==
    /\ IdleHeader
    /\ IdleDate
    /\ InitComponent

Next ==
    \/ \E f \in UiFiles : SelectFile(f, MaxUploads)
    \/ SelectNothing
    \/ \E id \in pending : OnLoad(id)
    \/ \E id \in pending : OnLoadThrows(id)
    \/ ShowMore
    \/ Tick

Spec == Init /\ [][Next]_vars

(***************************************************************************)
(* SpecRow: one sheet of one row, over headers and cells that reach every  *)
(* branch of the row mapper                                                *)
(***************************************************************************)
MaxCols == 2

RowHeaders ==
    { <<"Q", "u", "a", "n", "t", "o", "s", " ", "d", "i", "a", "s", " ", "e", "s", "t", "a'", " ", "a", "t", "r", "a", "s", "a", "d", "o", " ", "(", "d", "i", "a", "s", ")">>, <<"D", "a", "t", "a", " ", "l", "i", "m", "i", "t", "e", " ", "p", "a", "r", "a", " ", "p", "r", "o", "t", "o", "c", "o", "l", "o">>,
      <<"P", "e", "n", "d", "e^", "n", "c", "i", "a", "s">>, <<"O", "b", "s">> }

RowCells ==
    { Str(<<>>), Str(<<"1", "2">>), Str(<<"2", "4", "/", "0", "9", "/", "2", "0", "2", "4">>), Str(<<"0", "5", "/", "1", "0", "/", "2", "0", "2", "4">>),
      Str(<<"0", "1", "/", "0", "1", "/", "3", "0", "0", "0", "0", "0">>) }

\* Object.entries of a row: property names are distinct
RowsOver(hs, cells, n) ==
    { r \in SeqsUpTo(hs \X cells, n) :
        \A i, j \in 1..Len(r) : i # j => r[i][1] # r[j][1] }

RowFiles == { Sheet(<<r>>) : r \in RowsOver(RowHeaders, RowCells, MaxCols) }

NextRow ==
    \/ \E f \in RowFiles : SelectFile(f, 1)
    \/ \E id \in pending : OnLoad(id)
    \/ Tick

SpecRow == Init /\ [][NextRow]_vars

(***************************************************************************)
(* SpecAgg: one sheet of a few rows with city and pendency columns         *)
(***************************************************************************)
MaxRows == 3

AggCities == { Str(<<"R", "e", "c", "i", "f", "e">>), Str(<<"7">>), Str(<<>>) }

AggPendencias == { Str(<<>>), Str(<<"R", "G", ",", " ", "C", "P", "F">>), Str(<<"C", "P", "F">>) }

AggRows ==
    { << <<<<"C", "i", "d", "a", "d", "e">>, c>>, <<<<"P", "e", "n", "d", "e^", "n", "c", "i", "a", "s">>, p>> >> :
          c \in AggCities, p \in AggPendencias }
    \cup { << <<<<"C", "i", "d", "a", "d", "e">>, Str(<<"R", "e", "c", "i", "f", "e">>)>> >> }

AggFiles == { Sheet(rows) : rows \in SeqsUpTo(AggRows, MaxRows) }

NextAgg ==
    \/ \E f \in AggFiles : SelectFile(f, 1)
    \/ \E id \in pending : OnLoad(id)

SpecAgg == Init /\ [][NextAgg]_vars

(***************************************************************************)
(* Properties                                                              *)
(***************************************************************************)
\* the field an own key of the table gives, by exact match
TableField(name) ==
    headerMap[CHOOSE i \in 1..Len(headerMap) : headerMap[i][1] = name][2]

IsTableKey(name) == \E i \in 1..Len(headerMap) : headerMap[i][1] = name

\* the resolution the table defines: an exact key wins, otherwise the
\* first key in table order that the header contains, otherwise absent
TableResolution(name) ==
    IF IsTableKey(name) THEN TableField(name)
    ELSE IF \E i \in 1..Len(headerMap) : Includes(name, headerMap[i][1])
    THEN headerMap[CHOOSE i \in 1..Len(headerMap) :
                       /\ Includes(name, headerMap[i][1])
                       /\ \A j \in 1..(i - 1) : ~Includes(name, headerMap[j][1])][2]
    ELSE Undefined

\* C1: every normalised header resolves to the field of its exact table
\* key, otherwise to the field of the first table key (insertion order)
\* it contains, otherwise to nothing (absent).
C1_ResolutionFollowsTable ==
    headerKey # Unresolved => headerKey = TableResolution(normalizeHeader(header))

\* the row a record was mapped from
RowOf(c) == c["raw"].entries

\* the cells of a row under headers that resolve to the given field
CellsOf(c, field) ==
    { RowOf(c)[j][2] :
        j \in { k \in 1..Len(RowOf(c)) :
                  mapHeaderToKey(normalizeHeader(RowOf(c)[k][1])) = field } }

HasDigit(v) == \E i \in 1..Len(StringOf(v)) : IsDigit(StringOf(v)[i])

\* C2: a row whose overdue-days column holds no digit (blank or purely
\* non-numeric) gets a null overdue-days value from the column, so the
\* record ends with the value computed from its protocol deadline, or
\* with null when it has no deadline date.
C2_NoDigitsLeavesFallbackEligible ==
    \A i \in 1..Len(clientes) :
        LET c == clientes[i]
        IN  (/\ CellsOf(c, "diasAtrasado") # {}
             /\ \A v \in CellsOf(c, "diasAtrasado") : ~HasDigit(v))
            => IF /\ "dataLimiteProtocolo" \in DOMAIN c
                  /\ c["dataLimiteProtocolo"].t = "date"
               THEN c["diasAtrasado"]
                        = Num(computeAtraso(c["dataLimiteProtocolo"], source.clock))
               ELSE c["diasAtrasado"] = Null

\* the record as the columns alone leave it, before the fallback
AfterColumns(c) ==
    mapEntries("raw" :> [t |-> "row", entries |-> RowOf(c)], RowOf(c),
               source.legacy)

\* whole days from the deadline to the clock reading, never below 0 (0
\* for a deadline that is no calendar date)
WholeDaysOverdue(deadline, clock) ==
    IF deadline.valid
    THEN Max(0, (clock - deadline.time) \div TicksPerDay)
    ELSE 0

\* C3: once the columns of a row are processed, a null or absent
\* overdue-days value with a protocol-deadline date present becomes
\* max(0, floor((now - deadline) / 1 day)), never negative; any other
\* overdue-days value is kept as the columns left it, whatever the order
\* of the columns.
C3_FallbackOnlyWhenMissing ==
    \A i \in 1..Len(clientes) :
        LET c == clientes[i]
            cols == AfterColumns(c)
        IN  IF /\ ("diasAtrasado" \notin DOMAIN cols \/ cols["diasAtrasado"] = Null)
               /\ "dataLimiteProtocolo" \in DOMAIN cols
               /\ cols["dataLimiteProtocolo"].t = "date"
            THEN /\ c["diasAtrasado"].t = "number"
                 /\ c["diasAtrasado"].n
                        = WholeDaysOverdue(cols["dataLimiteProtocolo"], source.clock)
                 /\ c["diasAtrasado"].n >= 0
            ELSE c = cols

\* C3 witness: a deadline column and no overdue-days column, and a
\* positive number of days computed.
C3_Witness ==
    \E i \in 1..Len(clientes) :
        /\ CellsOf(clientes[i], "diasAtrasado") = {}
        /\ CellsOf(clientes[i], "dataLimiteProtocolo") # {}
        /\ "diasAtrasado" \in DOMAIN clientes[i]
        /\ clientes[i]["diasAtrasado"].n > 0

\* the labels of every record, as this property reads them off the rows
LabelCount(cs) ==
    LET RECURSIVE sum(_)
        sum(i) == IF i = 0 THEN 0
                  ELSE sum(i - 1)
                       + (IF "pendencias" \in DOMAIN cs[i]
                          THEN Len(cs[i]["pendencias"].items) ELSE 0)
    IN  sum(Len(cs))

Unlabelled(c) ==
    "pendencias" \notin DOMAIN c \/ c["pendencias"].items = <<>>

UnlabelledCount(cs) == Cardinality({i \in 1..Len(cs) : Unlabelled(cs[i])})

RECURSIVE SumCounts(_)
SumCounts(table) ==
    IF table = <<>> THEN 0 ELSE Head(table)[2] + SumCounts(Tail(table))

BucketCount(table, label) ==
    IF \E i \in 1..Len(table) : table[i][1] = label
    THEN table[CHOOSE i \in 1..Len(table) : table[i][1] = label][2]
    ELSE 0

C5_PendenciasAlwaysList ==
    \A i \in 1..Len(clientes) :
        /\ "pendencias" \in DOMAIN clientes[i]
        /\ clientes[i]["pendencias"].t = "list"

\* C5 amended: pendencias is never null: it is a list (possibly empty)
\* exactly when some column of the row resolves to pendencias, and absent
\* when none does; what the aggregation reads in its place is then the
\* empty list.
C5_PendenciasListOrAbsent ==
    \A i \in 1..Len(clientes) :
        LET c == clientes[i]
        IN  /\ "pendencias" \in DOMAIN c <=> CellsOf(c, "pendencias") # {}
            /\ "pendencias" \in DOMAIN c => c["pendencias"].t = "list"
            /\ "pendencias" \notin DOMAIN c => pendenciasOf(c) = <<>>

\* C5 witness: one record mapped from a row with an empty pendency cell
\* (an empty list).
C5_Witness ==
    \E i \in 1..Len(clientes) :
        /\ Str(<<>>) \in CellsOf(clientes[i], "pendencias")
        /\ "pendencias" \in DOMAIN clientes[i]
        /\ clientes[i]["pendencias"] = List(<<>>)

\* a day, 1-based month and year that name a calendar date
IsCalendarDate(d, m, y) ==
    /\ m \in 1..12
    /\ d >= 1
    /\ d <= (IF m = 2 THEN (IF DaysInYear(y) = 366 THEN 29 ELSE 28)
             ELSE IF m \in {4, 6, 9, 11} THEN 30 ELSE 31)

\* a part of a d/m/y text that Number() turns into a number
NumericPart(p) ==
    LET t == Trim(p)
    IN  \/ t = <<>>
        \/ AllDigits(t)
        \/ Len(t) > 1 /\ Head(t) \in {"-", "+"} /\ AllDigits(Tail(t))

\* C6: parseDate of the text DD/MM/YYYY of a calendar date with
\* YYYY > 1900 is the date with day DD, month MM-1 and year YYYY; a text
\* of three "/"-separated parts whose year is <= 1900 or that has a
\* non-numeric part gives null, whatever the later attempts would give.
C6_DayMonthYear ==
    dateRes # NotComputed =>
        /\ (/\ dateSrc.kind = "dmy"
            /\ dateSrc.y > 1900
            /\ dateSrc.y <= 9999
            /\ IsCalendarDate(dateSrc.d, dateSrc.m, dateSrc.y))
           => /\ dateRes.t = "date"
              /\ dateRes.valid
              /\ getDate(dateRes) = dateSrc.d
              /\ getMonth(dateRes) = dateSrc.m - 1
              /\ getFullYear(dateRes) = dateSrc.y
        /\ (/\ dateArg.t = "string"
            /\ Len(SplitOn(Trim(dateArg.s), "/")) = 3
            /\ LET parts == SplitOn(Trim(dateArg.s), "/")
               IN  \/ \E k \in 1..3 : ~NumericPart(parts[k])
                   \/ StringToNumber(parts[3]).v <= 1900)
           => dateRes = Null

\* C6 witness: the text 29/02/2024 parsed to 29 February 2024.
C6_Witness ==
    /\ dateSrc = [kind |-> "dmy", d |-> 29, m |-> 2, y |-> 2024]
    /\ dateRes.t = "date"
    /\ dateRes.valid
    /\ getDate(dateRes) = 29

\* C7: parseDate returns null or a valid calendar date, of a year > 1900
\* when it was parsed from text, for every input value.
C7_NullOrValidDate ==
    dateRes # NotComputed =>
        \/ dateRes = Null
        \/ /\ dateRes.t = "date"
           /\ dateRes.valid
           /\ dateArg.t # "date" => getFullYear(dateRes) > 1900

\* the position at which a label is first seen in a sequence of labels
FirstSeen(labels, l) ==
    CHOOSE i \in 1..Len(labels) :
        labels[i] = l /\ \A j \in 1..(i - 1) : labels[j] # l

\* non-increasing by count, equal counts in first-seen order
CountThenFirstSeen(table, labels) ==
    \A i, j \in 1..Len(table) :
        i < j =>
            \/ table[i][2] > table[j][2]
            \/ /\ table[i][2] = table[j][2]
               /\ FirstSeen(labels, table[i][1]) < FirstSeen(labels, table[j][1])

CityLabels(cs) == [i \in 1..Len(cs) |-> cityLabel(cs[i])]

\* C8: the pendency table and the top-cities table are sorted
\* non-increasing by count, labels of equal count in the order in which
\* they are first seen in the records, for every label value; the
\* top-cities table has at most 10 entries, the first of that order.
C8_SortedCountThenFirstSeen ==
    /\ CountThenFirstSeen(pendenciasArray(clientes), pendenciasFlat(clientes))
    /\ CountThenFirstSeen(topCities(clientes), CityLabels(clientes))
    /\ Len(topCities(clientes))
           = Min(TopCitiesLimit,
                 Cardinality({cityLabel(clientes[i]) : i \in 1..Len(clientes)}))

\* C9: the records the metrics read are the initial empty collection or
\* the complete mapping of exactly one uploaded file, row by row: never
\* part of a file, never the rows of two uploads together.
C9_WholeMappingOfOneFile ==
    IF source = NoSource THEN clientes = <<>>
    ELSE /\ source.id \in 1..Len(uploaded)
         /\ source.id \notin pending
         /\ uploaded[source.id].ok
         /\ LET rows == uploaded[source.id].rows
            IN  /\ Len(clientes) = Len(rows)
                /\ \A i \in 1..Len(rows) :
                      /\ RowOf(clientes[i]) = rows[i]
                      /\ clientes[i] = mapRow(rows[i], source.clock, source.legacy)

\* C9 witness: two different sheets were uploaded, the read started
\* first finished last, and its records are the ones on screen.
C9_Witness ==
    /\ Len(uploaded) = 2
    /\ pending = {}
    /\ uploaded[1].ok /\ uploaded[2].ok
    /\ uploaded[1] # uploaded[2]
    /\ source.id = 1
    /\ Len(clientes) > 0
    /\ Len(uploaded[2].rows) > 0

IsPrefix(xs, ys) ==
    Len(xs) <= Len(ys) /\ \A i \in 1..Len(xs) : xs[i] = ys[i]

\* C10: the preview rows are a prefix of the current records: the first
\* min(10, n) right after an upload completes (also when the preview had
\* been expanded), the first min(50, n) after "show more", never more
\* than 50 and never rows of a file uploaded before.
C10_PreviewIsPrefix ==
    /\ IsPrefix(previewRows, clientes)
    /\ Len(previewRows) <= ShowMoreLimit
    /\ lastOp = "init" => previewRows = <<>>
    /\ lastOp = "load" => Len(previewRows) = Min(PreviewLimit, Len(clientes))
    /\ lastOp = "more" => Len(previewRows) = Min(ShowMoreLimit, Len(clientes))

\* C10 witness: after "show more" on a sheet of more than 50 rows the
\* preview holds 50 of them.
C10_Witness ==
    /\ lastOp = "more"
    /\ Len(clientes) > ShowMoreLimit
    /\ Len(previewRows) = ShowMoreLimit
=============================================================================
